---- MODULE Spec2Model ----
(***************************************************************************)
(* Model of rcon/hooks.py: the game-log hooks of the RCON tool.            *)
(*                                                                         *)
(* Four specifications are defined over the same variables:                *)
(*   Spec     the hook router dispatching connect / disconnect events to   *)
(*            the hooks registered in hooks.py, each hook a whole action;  *)
(*   SpecBan  direct calls of the module-level ban functions should_ban,   *)
(*            ban_if_blacklisted and ban_if_has_vac_bans on bounded        *)
(*            inputs;                                                      *)
(*   SpecVip  the real-VIP hooks of connect / disconnect events against    *)
(*            the server's VIP count and slot count;                       *)
(*   SpecChat the router dispatching chat and camera events to count_vote  *)
(*            and notify_camera, with the vote session.                    *)
(* Every hook records the external calls it makes, in order, in `calls`.   *)
(***************************************************************************)
EXTENDS Integers, Sequences, FiniteSets, TLC

VARIABLES
    cache,                   \* memo of rcon.get_player_info: name -> steam id, NoId when absent
    MAX_DAYS_SINCE_BAN,      \* environment value BAN_ON_VAC_HISTORY_DAYS as read at import
    MAX_GAME_BAN_THRESHOLD,  \* environment value MAX_GAME_BAN_THRESHOLD as read at import
    event,                   \* the log line being dispatched
    todo,                    \* hooks of the current event still to be invoked
    invoked,                 \* hooks of the current event already invoked, with their outcome
    calls,                   \* external calls made by the hook invoked last, in order
    prior_failure,           \* some hook of an earlier event raised
    unit,                    \* SpecBan: the last direct call, its inputs and its outcome
    vip,                     \* SpecVip: real-VIP configuration, VIP count and slot count of the server
    vote                     \* SpecChat: the vote session and the next map set on the server

vars == <<cache, MAX_DAYS_SINCE_BAN, MAX_GAME_BAN_THRESHOLD, event, todo,
          invoked, calls, prior_failure, unit, vip, vote>>

----------------------------------------------------------------------------
(* Bounds                                                                  *)

MaxId == 2          \* steam ids are 1..MaxId
MaxInt == 2         \* integers of a ban history and of the thresholds: -1..MaxInt
MaxVips == 2        \* VIP counts and VIP configuration values: -1..MaxVips
MaxVotes == 3       \* vote chats of a vote session
MaxHooks == 2       \* camera webhooks configured

NoId == 0           \* a falsy steam id: None, or a name without cache entry
Names == {"n1", "n2"}
Ids == 1..MaxId
Ints == (0 - 1)..MaxInt

----------------------------------------------------------------------------
(* Python values                                                           *)

\* A value of a ban-history field or of a parsed setting.
\*   t = "int"     the integer v
\*   t = "numstr"  a string holding the decimal integer v
\*   t = "str"     a string that is no integer
\*   t = "null"    None
\*   t = "absent"  the key is not in the mapping
Val(t, v) == [t |-> t, v |-> v]
IntVal(v) == Val("int", v)
Absent == Val("absent", 0)
Null == Val("null", 0)
NonNumeric == Val("str", 0)

\* int(x): the integer, or the exception int() raises.
PyInt(x) ==
    CASE x.t = "int" -> [exc |-> "", v |-> x.v]
      [] x.t = "numstr" -> [exc |-> "", v |-> x.v]
      [] x.t = "str" -> [exc |-> "ValueError", v |-> 0]
      [] x.t = "null" -> [exc |-> "TypeError", v |-> 0]
      [] OTHER -> [exc |-> "TypeError", v |-> 0]

\* os.getenv(name, 0): the variable's string, or the integer default when unset.
Getenv(x) == IF x.t = "absent" THEN IntVal(0) ELSE x

\* A threshold: an integer, or float("inf").
Num(v) == [inf |-> FALSE, v |-> v]
Inf == [inf |-> TRUE, v |-> 0]
\* n >= m for an integer n and a threshold m
GreaterEq(n, m) == ~m.inf /\ n >= m.v

Max(a, b) == IF a >= b THEN a ELSE b

\* One external call: its name, its steam-id or numeric argument, its outcome.
Call(op, id, ret) == [op |-> op, id |-> id, ret |-> ret]
\* "ok", or "raise" when the call is among the failing ones
Outcome(name, fails) == IF name \in fails THEN "raise" ELSE "ok"

Result(c, r) == [calls |-> c, raised |-> r]
\* a configuration flag as a call returns it
Bool(b) == IF b THEN "True" ELSE "False"

----------------------------------------------------------------------------
(* should_ban                                                              *)

\* The ban history returned by get_player_bans, when it is a non-empty dict.
Bans(days, games, vac) == [kind |-> "dict", days |-> days, games |-> games, vac |-> vac]

\* should_ban with the never-banned test written days_since_last_ban < 0
should_ban_days_lt(bans, max_game_bans, max_days_since_ban) ==
    IF bans.days.t = "absent" THEN "KeyError"
    ELSE LET d == PyInt(bans.days)
             g == PyInt(IF bans.games.t = "absent" THEN IntVal(0) ELSE bans.games)
         IN  IF d.exc = "ValueError" THEN "None"
             ELSE IF d.exc # "" THEN d.exc
             ELSE IF g.exc = "ValueError" THEN "None"
             ELSE IF g.exc # "" THEN g.exc
             ELSE LET has_a_ban == bans.vac = "True" \/ GreaterEq(g.v, max_game_bans)
                  IN  IF d.v < 0 THEN "False"
                      ELSE IF d.v <= max_days_since_ban /\ has_a_ban THEN "True"
                      ELSE "False"

\* should_ban(bans, max_game_bans, max_days_since_ban): "True", "False", "None"
\* (the bare return of the ValueError handler) or the name of the exception
\* that leaves the function.
should_ban(bans, max_game_bans, max_days_since_ban) ==
    IF bans.days.t = "absent" THEN "KeyError"
    ELSE LET d == PyInt(bans.days)
             g == PyInt(IF bans.games.t = "absent" THEN IntVal(0) ELSE bans.games)
         IN  IF d.exc = "ValueError" THEN "None"
             ELSE IF d.exc # "" THEN d.exc
             ELSE IF g.exc = "ValueError" THEN "None"
             ELSE IF g.exc # "" THEN g.exc
             ELSE LET has_a_ban == bans.vac = "True" \/ GreaterEq(g.v, max_game_bans)
                  IN  IF d.v <= 0 THEN "False"
                      ELSE IF d.v <= max_days_since_ban /\ has_a_ban THEN "True"
                      ELSE "False"

----------------------------------------------------------------------------
(* ban_if_blacklisted                                                      *)

\* player: "none" (no record), "clean" (no blacklist entry, or one that is not
\* active) or "blacklisted". fails: the external calls that raise.
ban_if_blacklisted(steam_id_64, player, fails) ==
    LET t0 == <<Call("ban_if_blacklisted", steam_id_64, ""),
                Call("get_player", steam_id_64, Outcome("get_player", fails))>>
        \* the handler of the outer try: one error report, itself unprotected
        report(t) ==
            Result(t \o <<Call("send_to_discord_audit:ERROR", steam_id_64,
                               Outcome("error_report", fails))>>,
                   IF "error_report" \in fails THEN "Exception" ELSE "")
        t1 == t0 \o <<Call("do_perma_ban", steam_id_64, Outcome("do_perma_ban", fails))>>
        t2 == t1 \o <<Call("safe_save_player_action", steam_id_64,
                           Outcome("safe_save_player_action", fails))>>
        t3 == t2 \o <<Call("send_to_discord_audit:BLACKLIST", steam_id_64,
                           Outcome("audit", fails))>>
    IN  IF "get_player" \in fails THEN Result(t0, "Exception")
        ELSE IF player # "blacklisted" THEN Result(t0, "")
        ELSE IF "do_perma_ban" \in fails THEN report(t1)
        ELSE IF "safe_save_player_action" \in fails THEN report(t2)
        ELSE Result(t3, "")

----------------------------------------------------------------------------
(* ban_if_has_vac_bans                                                     *)

\* the feature is off: ban_if_has_vac_bans returns before any lookup
Disabled == [enabled |-> FALSE, max_days_since_ban |-> 0, max_game_bans |-> Inf]

\* vac_settings without the max_days_since_ban <= 0 return
vac_settings_no_sentinel(envDays, envGames) ==
    LET d == PyInt(Getenv(envDays))
        g == PyInt(Getenv(envGames))
    IN  IF d.exc = "ValueError" \/ g.exc = "ValueError" THEN Disabled
        ELSE [enabled |-> TRUE, max_days_since_ban |-> d.v,
              max_game_bans |-> IF g.v <= 0 THEN Inf ELSE Num(g.v)]

\* vac_settings with only BAN_ON_VAC_HISTORY_DAYS validated
vac_settings_days_only(envDays, envGames) ==
    LET d == PyInt(Getenv(envDays))
        g == PyInt(Getenv(envGames))
    IN  IF d.exc = "ValueError" THEN Disabled
        ELSE IF d.v <= 0 THEN Disabled
        ELSE [enabled |-> TRUE, max_days_since_ban |-> d.v,
              max_game_bans |-> IF g.v <= 0 THEN Inf ELSE Num(g.v)]

\* vac_settings with a game-ban threshold <= 0 kept as a number
vac_settings_finite_threshold(envDays, envGames) ==
    LET d == PyInt(Getenv(envDays))
        g == PyInt(Getenv(envGames))
    IN  IF d.exc = "ValueError" \/ g.exc = "ValueError" THEN Disabled
        ELSE IF d.v <= 0 THEN Disabled
        ELSE [enabled |-> TRUE, max_days_since_ban |-> d.v, max_game_bans |-> Num(g.v)]

\* The head of ban_if_has_vac_bans: both environment values are parsed in one
\* try block whose ValueError handler returns, and max_days_since_ban <= 0
\* returns too. An environment value is a string or the integer default, so
\* int() raises nothing but ValueError here.
vac_settings(envDays, envGames) ==
    LET d == PyInt(Getenv(envDays))
        g == PyInt(Getenv(envGames))
    IN  IF d.exc = "ValueError" \/ g.exc = "ValueError" THEN Disabled
        ELSE IF d.v <= 0 THEN Disabled
        ELSE [enabled |-> TRUE, max_days_since_ban |-> d.v,
              max_game_bans |-> IF g.v <= 0 THEN Inf ELSE Num(g.v)]

\* envDays, envGames: the two environment values. player: "none" or a record
\* kind. bans: what get_player_bans returns: kind "none" (None), "empty" ({}),
\* "nondict" (a truthy value that is no dict) or "dict".
ban_if_has_vac_bans(envDays, envGames, steam_id_64, player, bans, fails) ==
    LET cfg == vac_settings(envDays, envGames)
        t0 == <<Call("ban_if_has_vac_bans", steam_id_64, "")>>
        t1 == t0 \o <<Call("get_player", steam_id_64, Outcome("get_player", fails))>>
        t2 == t1 \o <<Call("get_player_bans", steam_id_64, Outcome("get_player_bans", fails))>>
        sb == should_ban(bans, cfg.max_game_bans, cfg.max_days_since_ban)
        t3 == t2 \o <<Call("do_perma_ban", steam_id_64, Outcome("do_perma_ban", fails))>>
        \* the audit message is sent inside try / except: a failure is logged
        t4 == t3 \o <<Call("send_to_discord_audit:AUTOBAN", steam_id_64,
                           Outcome("audit", fails))>>
    IN  IF ~cfg.enabled THEN Result(t0, "")
        ELSE IF "get_player" \in fails THEN Result(t1, "Exception")
        ELSE IF player = "none" THEN Result(t1, "")
        ELSE IF "get_player_bans" \in fails THEN Result(t2, "Exception")
        ELSE IF bans.kind # "dict" THEN Result(t2, "")
        ELSE IF sb \in {"KeyError", "TypeError"} THEN Result(t2, sb)
        ELSE IF sb # "True" THEN Result(t2, "")
        ELSE IF "do_perma_ban" \in fails THEN Result(t3, "Exception")
        ELSE Result(t4, "")

----------------------------------------------------------------------------
(* The get_player_info memo and the identity lookups                       *)

LookupOutcomes == {"ok", "noid", "CommandFailedError", "KeyError"}
LookupErrors == {"CommandFailedError", "KeyError"}

\* rcon.get_player_info(name, can_fail=True) through its memo: a present entry
\* is returned as it is ("hit"); otherwise the server is asked, and answers
\* with the steam id `who` of the player now bearing the name ("ok", which
\* fills the memo), with no steam id ("noid"), or the call raises.
get_player_info(c, name, who, outcome) ==
    IF c[name] # NoId THEN [ret |-> "hit", id |-> c[name], cache |-> c]
    ELSE IF outcome = "ok"
         THEN [ret |-> "ok", id |-> who, cache |-> [c EXCEPT ![name] = who]]
         ELSE [ret |-> outcome, id |-> NoId, cache |-> c]

\* rcon.get_player_info.clear_for(name)
clear_for(c, name) == [c EXCEPT ![name] = NoId]

\* The three cache-clearing calls of handle_on_connect share one try block:
\* the first one that raises skips the ones after it.
ClearSteps == <<"invalidate_player_list_cache", "clear_for", "clear_for_player">>
ClearFailures == {"none"} \cup {ClearSteps[i] : i \in 1..Len(ClearSteps)}

clear_caches(c, name, clearFail) ==
    IF clearFail \in {"invalidate_player_list_cache", "clear_for"}
    THEN c
    ELSE clear_for(c, name)

----------------------------------------------------------------------------
(* inject_steam_id_64                                                      *)

\* inject_steam_id_64 with every lookup error swallowed
inject_steam_id_64_swallow(c, name, who, outcome, body) ==
    LET lk == get_player_info(c, name, who, outcome)
        t0 == <<Call("get_player_info", c[name], lk.ret)>>
    IN  IF lk.ret \in LookupErrors \/ lk.id = NoId
        THEN [calls |-> t0, raised |-> "", cache |-> lk.cache]
        ELSE LET r == body[lk.id]
             IN  [calls |-> t0 \o r.calls, raised |-> r.raised, cache |-> lk.cache]

\* The wrapper around a hook taking a steam id. body[steam_id_64] is the
\* wrapped hook's Result. KeyError is logged and raised again;
\* CommandFailedError is not caught.
inject_steam_id_64(c, name, who, outcome, body) ==
    LET lk == get_player_info(c, name, who, outcome)
        t0 == <<Call("get_player_info", c[name], lk.ret)>>
    IN  IF lk.ret \in LookupErrors
        THEN [calls |-> t0, raised |-> lk.ret, cache |-> lk.cache]
        ELSE IF lk.id = NoId
        THEN [calls |-> t0, raised |-> "", cache |-> lk.cache]
        ELSE LET r == body[lk.id]
             IN  [calls |-> t0 \o r.calls, raised |-> r.raised, cache |-> lk.cache]

----------------------------------------------------------------------------
(* The hooks                                                               *)

\* resolved_steam_id without the fallback to the cached value
resolved_steam_id_no_fallback(cached, lk) == lk.id

\* The steam id handle_on_connect goes on with after its lookup: the looked-up
\* one, or the value cached before the clearing when the lookup raised.
resolved_steam_id(cached, lk) == IF lk.ret \in LookupErrors THEN cached ELSE lk.id

\* handle_on_connect returning after a ban of the blacklist check
handle_on_connect_one_ban(c, envDays, envGames, name, who, clearFail, outcome, player, blFails, vacPlayer, bans, vacFails) ==
    LET cached == c[name]
        t0 == <<Call("get_cached_value_for", cached, "")>>
        c1 == clear_caches(c, name, clearFail)
        t1 == t0 \o <<Call("clear_caches", c1[name], clearFail)>>
        lk == get_player_info(c1, name, who, outcome)
        t2 == t1 \o <<Call("get_player_info", c1[name], lk.ret)>>
        failed == lk.ret \in LookupErrors
        steam_id_64 == resolved_steam_id(cached, lk)
        t3 == t2 \o <<Call("save_player", steam_id_64, "ok"),
                      Call("save_start_player_session", steam_id_64, "ok")>>
        bl == ban_if_blacklisted(steam_id_64, player, blFails)
        vac == ban_if_has_vac_bans(envDays, envGames, steam_id_64, vacPlayer, bans, vacFails)
        banned == \E i \in 1..Len(bl.calls) : bl.calls[i].op = "do_perma_ban"
    IN  IF failed /\ cached = NoId
        THEN [calls |-> t2, raised |-> lk.ret, cache |-> lk.cache]
        ELSE IF steam_id_64 = NoId
        THEN [calls |-> t2, raised |-> "", cache |-> lk.cache]
        ELSE IF bl.raised # "" \/ banned
        THEN [calls |-> t3 \o bl.calls, raised |-> bl.raised, cache |-> lk.cache]
        ELSE [calls |-> t3 \o bl.calls \o vac.calls, raised |-> vac.raised,
              cache |-> lk.cache]

\* handle_on_connect. name: the connecting player's name; who: the steam id the
\* server holds for that name now. The other parameters are the outcomes of
\* the external calls.
handle_on_connect(c, envDays, envGames, name, who, clearFail, outcome, player, blFails, vacPlayer, bans, vacFails) ==
    LET cached == c[name]
        t0 == <<Call("get_cached_value_for", cached, "")>>
        c1 == clear_caches(c, name, clearFail)
        t1 == t0 \o <<Call("clear_caches", c1[name], clearFail)>>
        lk == get_player_info(c1, name, who, outcome)
        t2 == t1 \o <<Call("get_player_info", c1[name], lk.ret)>>
        failed == lk.ret \in LookupErrors
        steam_id_64 == resolved_steam_id(cached, lk)
        t3 == t2 \o <<Call("save_player", steam_id_64, "ok"),
                      Call("save_start_player_session", steam_id_64, "ok")>>
        bl == ban_if_blacklisted(steam_id_64, player, blFails)
        vac == ban_if_has_vac_bans(envDays, envGames, steam_id_64, vacPlayer, bans, vacFails)
    IN  IF failed /\ cached = NoId
        THEN [calls |-> t2, raised |-> lk.ret, cache |-> lk.cache]
        ELSE IF steam_id_64 = NoId
        THEN [calls |-> t2, raised |-> "", cache |-> lk.cache]
        ELSE IF bl.raised # ""
        THEN [calls |-> t3 \o bl.calls, raised |-> bl.raised, cache |-> lk.cache]
        ELSE [calls |-> t3 \o bl.calls \o vac.calls, raised |-> vac.raised,
              cache |-> lk.cache]

\* handle_on_disconnect, without its wrapper
handle_on_disconnect(steam_id_64) ==
    Result(<<Call("handle_on_disconnect", steam_id_64, ""),
             Call("save_end_player_session", steam_id_64, "ok")>>, "")

\* update_player_steaminfo_on_connect, without its wrapper. profile: whether
\* get_steam_profile returns one.
update_player_steaminfo_on_connect(steam_id_64, profile) ==
    LET t0 == <<Call("update_player_steaminfo_on_connect", steam_id_64, ""),
                Call("get_steam_profile", steam_id_64, IF profile THEN "ok" ELSE "none")>>
    IN  IF steam_id_64 = NoId THEN Result(<<t0[1]>>, "")
        ELSE IF ~profile THEN Result(t0, "")
        ELSE Result(t0 \o <<Call("_get_set_player", steam_id_64, "ok"),
                            Call("update_db_player_info", steam_id_64, "ok")>>, "")

\* _set_real_vips with the slot count max(desired - count, 0): no floor
_set_real_vips_no_floor(enabled, desired_nb_vips, min_vip_slot, vip_count) ==
    IF ~enabled THEN Result(<<>>, "")
    ELSE Result(<<Call("get_vips_count", vip_count, "ok"),
                  Call("set_vip_slots_num", Max(desired_nb_vips - vip_count, 0), "ok")>>, "")

\* _set_real_vips with the floor not clamped at 0
_set_real_vips_raw_floor(enabled, desired_nb_vips, min_vip_slot, vip_count) ==
    IF ~enabled THEN Result(<<>>, "")
    ELSE Result(<<Call("get_vips_count", vip_count, "ok"),
                  Call("set_vip_slots_num",
                       Max(desired_nb_vips - vip_count, min_vip_slot), "ok")>>, "")

\* _set_real_vips without the test of the enabled flag
_set_real_vips_always(enabled, desired_nb_vips, min_vip_slot, vip_count) ==
    Result(<<Call("get_vips_count", vip_count, "ok"),
             Call("set_vip_slots_num",
                  Max(desired_nb_vips - vip_count, Max(min_vip_slot, 0)), "ok")>>, "")

\* _set_real_vips: the configuration and the VIP count are read at each call.
_set_real_vips(enabled, desired_nb_vips, min_vip_slot, vip_count) ==
    IF ~enabled THEN Result(<<>>, "")
    ELSE Result(<<Call("get_vips_count", vip_count, "ok"),
                  Call("set_vip_slots_num",
                       Max(desired_nb_vips - vip_count, Max(min_vip_slot, 0)), "ok")>>, "")

----------------------------------------------------------------------------
(* VoteMap (rcon.map_recorder): the vote session, after the tally engine   *)

Maps == {"A", "B"}
ChatTexts == {"gg", "!votemap A", "!votemap B"}

\* The choice a chat text votes for, "" when it is ordinary chat.
is_vote(sub_content) ==
    CASE sub_content = "!votemap A" -> "A"
      [] sub_content = "!votemap B" -> "B"
      [] OTHER -> ""

\* A session is the sequence of the current votes, in registration order.
Voters(session) == {session[i].player : i \in DOMAIN session}
Count(session, choice) ==
    Cardinality({i \in DOMAIN session : session[i].choice = choice})

\* The choice with the most current votes; of tied choices, the one whose
\* vote was registered first.
tally(session) ==
    IF session = <<>> THEN ""
    ELSE LET top == {i \in DOMAIN session : \A j \in DOMAIN session :
                        Count(session, session[i].choice) >= Count(session, session[j].choice)}
         IN  session[CHOOSE i \in top : \A j \in top : i <= j].choice

Without(session, player) == SelectSeq(session, LAMBDA v : v.player # player)

\* The vote of `player` replaces the one they had; returns the leader.
register_vote(session, player, choice) ==
    LET s == Append(Without(session, player), [player |-> player, choice |-> choice])
    IN  [session |-> s, leader |-> tally(s)]

SetNextMap(map_name) == IF map_name = "A" THEN "set_next_map:A" ELSE "set_next_map:B"

\* One tally, then set_next_map until it succeeds, at most 1 + nb_retry
\* times; `failures` is the number of attempts the server refuses first.
\* Never raises: when every attempt fails the next map stays as it was.
apply_with_retry(session, next_map, retries, failures) ==
    LET winner == tally(session)
        attempts == IF failures > retries THEN retries + 1 ELSE failures + 1
    IN  [calls |-> <<Call("tally", 0, winner)>> \o
                   [i \in 1..attempts |->
                       Call(SetNextMap(winner), i, IF i <= failures THEN "raise" ELSE "ok")],
         next_map |-> IF failures > retries THEN next_map ELSE winner,
         raised |-> ""]

----------------------------------------------------------------------------
(* count_vote                                                              *)

\* the retry count count_vote passes, one more
nb_retry_one_more == 2 + 1

nb_retry == 2

Failures == 0..(nb_retry + 1)

\* The outcome of a hook that changes the vote session too.
VoteResult(c, r, v) == [calls |-> c, raised |-> r, vote |-> v]

\* count_vote registering a player's first vote only
count_vote_first_vote_only(enabled, player, sub_content, v, thanksFail, failures) ==
    LET t0 == <<Call("get_vote_enabled", 0, Bool(enabled))>>
        choice == is_vote(sub_content)
        t1 == t0 \o <<Call("is_vote", 0, choice)>>
        reg == IF player \in Voters(v.session)
               THEN [session |-> v.session, leader |-> tally(v.session)]
               ELSE register_vote(v.session, player, choice)
        t2 == t1 \o <<Call("register_vote", 0, reg.leader),
                      Call("temporary_broadcast", 5, IF thanksFail THEN "raise" ELSE "ok"),
                      Call("apply_with_retry", nb_retry, "ok")>>
        app == apply_with_retry(reg.session, v.next_map, nb_retry, failures)
    IN  IF ~enabled THEN VoteResult(t0, "", v)
        ELSE IF choice = "" THEN VoteResult(t1, "", v)
        ELSE VoteResult(t2 \o app.calls, app.raised,
                        [session |-> reg.session, next_map |-> app.next_map,
                         registered |-> Append(v.registered,
                                               [player |-> player, choice |-> choice])])

\* count_vote without the test of the enabled flag
count_vote_always(enabled, player, sub_content, v, thanksFail, failures) ==
    LET t0 == <<Call("get_vote_enabled", 0, Bool(enabled))>>
        choice == is_vote(sub_content)
        t1 == t0 \o <<Call("is_vote", 0, choice)>>
        reg == register_vote(v.session, player, choice)
        t2 == t1 \o <<Call("register_vote", 0, reg.leader),
                      Call("temporary_broadcast", 5, IF thanksFail THEN "raise" ELSE "ok"),
                      Call("apply_with_retry", nb_retry, "ok")>>
        app == apply_with_retry(reg.session, v.next_map, nb_retry, failures)
    IN  IF choice = "" THEN VoteResult(t1, "", v)
        ELSE VoteResult(t2 \o app.calls, app.raised,
                        [session |-> reg.session, next_map |-> app.next_map,
                         registered |-> Append(v.registered,
                                               [player |-> player, choice |-> choice])])

\* count_vote with the thank-you broadcast outside any try
count_vote_thanks_unprotected(enabled, player, sub_content, v, thanksFail, failures) ==
    LET t0 == <<Call("get_vote_enabled", 0, Bool(enabled))>>
        choice == is_vote(sub_content)
        t1 == t0 \o <<Call("is_vote", 0, choice)>>
        reg == register_vote(v.session, player, choice)
        t2 == t1 \o <<Call("register_vote", 0, reg.leader),
                      Call("temporary_broadcast", 5, IF thanksFail THEN "raise" ELSE "ok")>>
        app == apply_with_retry(reg.session, v.next_map, nb_retry, failures)
        voted == [session |-> reg.session, next_map |-> v.next_map,
                  registered |-> Append(v.registered, [player |-> player, choice |-> choice])]
    IN  IF ~enabled THEN VoteResult(t0, "", v)
        ELSE IF choice = "" THEN VoteResult(t1, "", v)
        ELSE IF thanksFail THEN VoteResult(t2, "Exception", voted)
        ELSE VoteResult(t2 \o <<Call("apply_with_retry", nb_retry, "ok")>> \o app.calls,
                        app.raised, [voted EXCEPT !.next_map = app.next_map])

\* v: the vote session and next map before the call. thanksFail: the thank-you
\* broadcast raises. failures: the set_next_map attempts the server refuses.
\* The timestamp of the vote is kept for audit only and is left out.
count_vote(enabled, player, sub_content, v, thanksFail, failures) ==
    LET t0 == <<Call("get_vote_enabled", 0, Bool(enabled))>>
        choice == is_vote(sub_content)
        t1 == t0 \o <<Call("is_vote", 0, choice)>>
        reg == register_vote(v.session, player, choice)
        t2 == t1 \o <<Call("register_vote", 0, reg.leader),
                      Call("temporary_broadcast", 5, IF thanksFail THEN "raise" ELSE "ok"),
                      Call("apply_with_retry", nb_retry, "ok")>>
        app == apply_with_retry(reg.session, v.next_map, nb_retry, failures)
    IN  IF ~enabled THEN VoteResult(t0, "", v)
        ELSE IF choice = "" THEN VoteResult(t1, "", v)
        ELSE VoteResult(t2 \o app.calls, app.raised,
                        [session |-> reg.session, next_map |-> app.next_map,
                         registered |-> Append(v.registered,
                                               [player |-> player, choice |-> choice])])

----------------------------------------------------------------------------
(* notify_camera                                                           *)

\* send_to_discord_audit swallows a failure of its transport ("swallowed");
\* any other failure of the call is raised to the caller.
AuditOutcomes == {"ok", "swallowed", "raise"}

\* The camera webhooks executed: all of them, or up to the first that raises.
Executed(nbHooks, hookFail) ==
    [i \in 1..(IF hookFail = 0 THEN nbHooks ELSE hookFail) |->
        Call("execute", i, IF i = hookFail THEN "raise" ELSE "ok")]

\* notify_camera with the webhook loop outside any try
notify_camera_hooks_unprotected(auditRet, nbHooks, hookFail, is_broadcast, is_welcome, fails) ==
    LET t0 == <<Call("send_to_discord_audit", 0, auditRet)>>
        t1 == t0 \o <<Call("get_prepared_discord_hooks", nbHooks, "ok")>>
                 \o Executed(nbHooks, hookFail)
        t2 == t1 \o <<Call("is_broadcast", 0, Bool(is_broadcast))>> \o
              IF is_broadcast
              THEN <<Call("temporary_broadcast", 60, Outcome("temporary_broadcast", fails))>>
              ELSE <<>>
        t3 == t2 \o <<Call("is_welcome", 0, Bool(is_welcome))>> \o
              IF is_welcome
              THEN <<Call("temporary_welcome", 60, Outcome("temporary_welcome", fails))>>
              ELSE <<>>
    IN  IF auditRet = "raise" THEN Result(t0, "Exception")
        ELSE IF hookFail # 0 THEN Result(t1, "Exception")
        ELSE IF is_broadcast /\ "temporary_broadcast" \in fails THEN Result(t2, "Exception")
        ELSE IF is_welcome /\ "temporary_welcome" \in fails THEN Result(t3, "Exception")
        ELSE Result(t3, "")

\* auditRet: the outcome of the audit message. nbHooks: the camera webhooks
\* configured. hookFail: the first webhook whose execute raises, 0 for none.
\* fails: the server commands that raise.
notify_camera(auditRet, nbHooks, hookFail, is_broadcast, is_welcome, fails) ==
    LET t0 == <<Call("send_to_discord_audit", 0, auditRet)>>
        t1 == t0 \o <<Call("get_prepared_discord_hooks", nbHooks, "ok")>>
                 \o Executed(nbHooks, hookFail)
        t2 == t1 \o <<Call("is_broadcast", 0, Bool(is_broadcast))>> \o
              IF is_broadcast
              THEN <<Call("temporary_broadcast", 60, Outcome("temporary_broadcast", fails))>>
              ELSE <<>>
        t3 == t2 \o <<Call("is_welcome", 0, Bool(is_welcome))>> \o
              IF is_welcome
              THEN <<Call("temporary_welcome", 60, Outcome("temporary_welcome", fails))>>
              ELSE <<>>
    IN  IF auditRet = "raise" THEN Result(t0, "Exception")
        ELSE IF is_broadcast /\ "temporary_broadcast" \in fails THEN Result(t2, "Exception")
        ELSE IF is_welcome /\ "temporary_welcome" \in fails THEN Result(t3, "Exception")
        ELSE Result(t3, "")

----------------------------------------------------------------------------
(* Registration: the decorators of hooks.py, in file order                 *)

\* on_connected with the first two hooks registered the other way round
on_connected_swapped ==
    <<"update_player_steaminfo_on_connect", "handle_on_connect", "do_real_vips">>

on_connected ==
    <<"handle_on_connect", "update_player_steaminfo_on_connect", "do_real_vips">>

on_disconnected == <<"handle_on_disconnect", "undo_real_vips">>

on_chat == <<"count_vote">>

on_camera == <<"notify_camera">>

Hooks(type) ==
    CASE type = "connected" -> on_connected
      [] type = "chat" -> on_chat
      [] type = "camera" -> on_camera
      [] OTHER -> on_disconnected

----------------------------------------------------------------------------
(* Inputs                                                                  *)

\* The failing external calls of one ban_if_blacklisted call: every set of
\* failures that the calls it reaches can tell apart.
BlacklistFailures ==
    {{}, {"get_player"}, {"do_perma_ban"}, {"safe_save_player_action"}, {"audit"},
     {"do_perma_ban", "error_report"}, {"safe_save_player_action", "error_report"}}

\* The same for ban_if_has_vac_bans: each failure but the audit one ends it.
VacFailures == {{}, {"get_player"}, {"get_player_bans"}, {"do_perma_ban"}, {"audit"}}

NoBans(kind) == [kind |-> kind, days |-> Absent, games |-> Absent, vac |-> "None"]
DayValues == {Absent, Null, NonNumeric, Val("numstr", 1)} \cup {IntVal(i) : i \in Ints}
GameValues == {Absent, Null, NonNumeric} \cup {IntVal(i) : i \in 0..MaxInt}
VacValues == {"True", "False", "None"}

\* What get_player_bans can return.
BanHistories ==
    {NoBans("none"), NoBans("empty"), NoBans("nondict")}
    \cup {Bans(d, g, v) : d \in DayValues, g \in GameValues, v \in VacValues}

\* The ban histories drawn on a connect event: one for each outcome of
\* should_ban, and the returns that are no usable dict.
ConnectBanHistories ==
    {NoBans("none"), NoBans("nondict"),
     Bans(IntVal(1), Absent, "True"), Bans(IntVal(1), IntVal(1), "False"),
     Bans(IntVal(0), IntVal(2), "True"), Bans(NonNumeric, Absent, "True"),
     Bans(Absent, Absent, "True"), Bans(Null, Absent, "True")}

\* The outcomes of the external calls of ban_if_blacklisted on a connect
\* event: a failure is drawn only for a call that is reached.
BlacklistScenarios ==
    {s \in [player : {"none", "clean", "blacklisted"}, fails : BlacklistFailures] :
        \/ s.fails = {}
        \/ s.fails = {"get_player"} /\ s.player = "none"
        \/ s.fails \notin {{}, {"get_player"}} /\ s.player = "blacklisted"}

\* The same for ban_if_has_vac_bans.
VacScenarios ==
    {s \in [player : {"none", "clean"}, bans : ConnectBanHistories, fails : VacFailures] :
        \/ s.fails = {} /\ (s.player = "clean" \/ s.bans = NoBans("none"))
        \/ s.fails = {"get_player"} /\ s.player = "none" /\ s.bans = NoBans("none")
        \/ s.fails = {"get_player_bans"} /\ s.player = "clean" /\ s.bans = NoBans("none")
        \/ s.fails \in {{"do_perma_ban"}, {"audit"}} /\ s.player = "clean"
              /\ s.bans = Bans(IntVal(1), Absent, "True")}

\* The values of the two environment variables.
EnvValues ==
    {Absent, NonNumeric} \cup {Val("numstr", i) : i \in Ints}
ConnectEnvDays == {Absent, Val("numstr", 2)}
ConnectEnvGames == {Absent, Val("numstr", 1)}

NoEvent == [type |-> "none", player |-> "n1", who |-> NoId]
\* before any real-VIP hook ran: the feature off, no VIP, no slot count set
NoVip ==
    [enabled |-> FALSE, desired |-> 0, floor |-> 0, count |-> 0, slots |-> 0,
     applied |-> FALSE, tick |-> 0, same |-> FALSE]
\* no vote yet, no next map set
NoVote == [session |-> <<>>, next_map |-> "", registered |-> <<>>]
NoUnit ==
    [fn |-> "none", bans |-> NoBans("none"), max_game_bans |-> Inf,
     max_days_since_ban |-> 0, player |-> "none", fails |-> {},
     res |-> "", calls |-> <<>>, raised |-> ""]

----------------------------------------------------------------------------
(* The router: the hooks of an event run in registration order, one after  *)
(* the other, and a hook that raises is logged and passed over.            *)

Receive ==
    /\ todo = <<>>
    /\ \E type \in {"connected", "disconnected"}, name \in Names, who \in Ids :
          /\ event' = [type |-> type, player |-> name, who |-> who]
          /\ todo' = Hooks(type)
    /\ invoked' = <<>>
    /\ calls' = <<>>
    /\ prior_failure' = (prior_failure \/ \E i \in 1..Len(invoked) : invoked[i].raised # "")
    /\ UNCHANGED <<cache, MAX_DAYS_SINCE_BAN, MAX_GAME_BAN_THRESHOLD, unit, vip, vote>>

\* One turn of the router's loop over the hooks of the current event: `hook`
\* is next and has run with Result r.
process_hooks(hook, r) ==
    /\ todo # <<>>
    /\ Head(todo) = hook
    /\ todo' = Tail(todo)
    /\ invoked' = Append(invoked, [hook |-> hook, raised |-> r.raised])
    /\ calls' = r.calls
    /\ UNCHANGED <<event, prior_failure, MAX_DAYS_SINCE_BAN, MAX_GAME_BAN_THRESHOLD, unit, vip>>

HandleOnConnect ==
    \E clearFail \in ClearFailures, outcome \in LookupOutcomes,
       bl \in BlacklistScenarios, vac \in VacScenarios :
        LET r == handle_on_connect(cache, MAX_DAYS_SINCE_BAN, MAX_GAME_BAN_THRESHOLD,
                                   event.player, event.who, clearFail, outcome,
                                   bl.player, bl.fails, vac.player, vac.bans, vac.fails)
        IN  /\ process_hooks("handle_on_connect", r)
            /\ cache' = r.cache
            /\ UNCHANGED vote

UpdatePlayerSteaminfoOnConnect ==
    \E outcome \in LookupOutcomes, profile \in BOOLEAN :
        LET r == inject_steam_id_64(cache, event.player, event.who, outcome,
                     [i \in Ids |-> update_player_steaminfo_on_connect(i, profile)])
        IN  /\ process_hooks("update_player_steaminfo_on_connect", r)
            /\ cache' = r.cache
            /\ UNCHANGED vote

HandleOnDisconnect ==
    \E outcome \in LookupOutcomes :
        LET r == inject_steam_id_64(cache, event.player, event.who, outcome,
                     [i \in Ids |-> handle_on_disconnect(i)])
        IN  /\ process_hooks("handle_on_disconnect", r)
            /\ cache' = r.cache
            /\ UNCHANGED vote

VipValues == (0 - 1)..MaxVips

DoRealVips ==
    \E enabled \in BOOLEAN, desired \in VipValues, floor \in VipValues, count \in 0..MaxVips :
        /\ process_hooks("do_real_vips", _set_real_vips(enabled, desired, floor, count))
        /\ UNCHANGED <<cache, vote>>

UndoRealVips ==
    \E enabled \in BOOLEAN, desired \in VipValues, floor \in VipValues, count \in 0..MaxVips :
        /\ process_hooks("undo_real_vips", _set_real_vips(enabled, desired, floor, count))
        /\ UNCHANGED <<cache, vote>>

Init ==
    /\ cache = [n \in Names |-> NoId]
    /\ MAX_DAYS_SINCE_BAN \in ConnectEnvDays
    /\ MAX_GAME_BAN_THRESHOLD \in ConnectEnvGames
    /\ event = NoEvent
    /\ todo = <<>>
    /\ invoked = <<>>
    /\ calls = <<>>
    /\ prior_failure = FALSE
    /\ unit = NoUnit
    /\ vip = NoVip
    /\ vote = NoVote

Next ==
    \/ Receive
    \/ HandleOnConnect
    \/ UpdatePlayerSteaminfoOnConnect
    \/ DoRealVips
    \/ HandleOnDisconnect
    \/ UndoRealVips

Spec == Init /\ [][Next]_vars

----------------------------------------------------------------------------
(* Direct calls of the ban functions                                       *)

CallShouldBan ==
    /\ unit = NoUnit
    /\ \E d \in DayValues, g \in GameValues, v \in VacValues,
          mg \in {Inf} \cup {Num(i) : i \in Ints}, md \in Ints :
          unit' = [NoUnit EXCEPT !.fn = "should_ban", !.bans = Bans(d, g, v),
                                 !.max_game_bans = mg, !.max_days_since_ban = md,
                                 !.res = should_ban(Bans(d, g, v), mg, md)]
    /\ UNCHANGED <<cache, MAX_DAYS_SINCE_BAN, MAX_GAME_BAN_THRESHOLD, event, todo,
                   invoked, calls, prior_failure, vip, vote>>

CallBanIfBlacklisted ==
    /\ unit = NoUnit
    /\ \E id \in Ids, player \in {"none", "clean", "blacklisted"},
          fails \in BlacklistFailures :
          LET r == ban_if_blacklisted(id, player, fails)
          IN  unit' = [NoUnit EXCEPT !.fn = "ban_if_blacklisted", !.player = player,
                                     !.fails = fails, !.calls = r.calls,
                                     !.raised = r.raised]
    /\ UNCHANGED <<cache, MAX_DAYS_SINCE_BAN, MAX_GAME_BAN_THRESHOLD, event, todo,
                   invoked, calls, prior_failure, vip, vote>>

CallBanIfHasVacBans ==
    /\ unit = NoUnit
    /\ \E id \in Ids, player \in {"none", "clean"}, bans \in BanHistories,
          fails \in VacFailures :
          LET r == ban_if_has_vac_bans(MAX_DAYS_SINCE_BAN, MAX_GAME_BAN_THRESHOLD,
                                       id, player, bans, fails)
          IN  unit' = [NoUnit EXCEPT !.fn = "ban_if_has_vac_bans", !.player = player,
                                     !.bans = bans, !.fails = fails,
                                     !.calls = r.calls, !.raised = r.raised]
    /\ UNCHANGED <<cache, MAX_DAYS_SINCE_BAN, MAX_GAME_BAN_THRESHOLD, event, todo,
                   invoked, calls, prior_failure, vip, vote>>

InitBan ==
    /\ cache = [n \in Names |-> NoId]
    /\ MAX_DAYS_SINCE_BAN \in EnvValues
    /\ MAX_GAME_BAN_THRESHOLD \in EnvValues
    /\ event = NoEvent
    /\ todo = <<>>
    /\ invoked = <<>>
    /\ calls = <<>>
    /\ prior_failure = FALSE
    /\ unit = NoUnit
    /\ vip = NoVip
    /\ vote = NoVote

NextBan ==
    \/ CallShouldBan
    \/ CallBanIfBlacklisted
    \/ CallBanIfHasVacBans

SpecBan == InitBan /\ [][NextBan]_vars

----------------------------------------------------------------------------
(* The real-VIP hooks against the server's VIP state                       *)

\* The values of RealVipConfig and the VIP counts of the server; 20, 5 and 18
\* are the values of a full server.
VipDesired == VipValues \cup {20}
VipFloors == VipValues \cup {5}
VipCounts == (0..MaxVips) \cup {18}

\* do_real_vips or undo_real_vips: _set_real_vips reads the configuration and
\* the VIP count of the server and sets the slot count on the server.
RealVipsHook(hook) ==
    LET r == _set_real_vips(vip.enabled, vip.desired, vip.floor, vip.count)
        sets == {i \in 1..Len(r.calls) : r.calls[i].op = "set_vip_slots_num"}
        sameInputs == /\ invoked # <<>>
                      /\ \/ calls = <<>> /\ ~vip.enabled
                         \/ calls # <<>> /\ vip.enabled /\ calls[1].id = vip.count
    IN  /\ invoked' = <<[hook |-> hook, raised |-> r.raised]>>
        /\ calls' = r.calls
        /\ vip' = [vip EXCEPT
                     !.slots = IF sets = {} THEN @ ELSE r.calls[CHOOSE i \in sets : TRUE].id,
                     !.applied = @ \/ sets # {},
                     !.tick = 1 - @,
                     !.same = sameInputs]
        /\ UNCHANGED <<cache, MAX_DAYS_SINCE_BAN, MAX_GAME_BAN_THRESHOLD, event, todo,
                       prior_failure, unit, vote>>

VipConnected == RealVipsHook("do_real_vips")

VipDisconnected == RealVipsHook("undo_real_vips")

\* VIPs join and leave the server between two events.
VipCountChanges ==
    /\ \E c \in VipCounts \ {vip.count} : vip' = [vip EXCEPT !.count = c]
    /\ UNCHANGED <<cache, MAX_DAYS_SINCE_BAN, MAX_GAME_BAN_THRESHOLD, event, todo,
                   invoked, calls, prior_failure, unit, vote>>

\* The feature is switched on or off in the configuration.
RealVipToggled ==
    /\ vip' = [vip EXCEPT !.enabled = ~@]
    /\ UNCHANGED <<cache, MAX_DAYS_SINCE_BAN, MAX_GAME_BAN_THRESHOLD, event, todo,
                   invoked, calls, prior_failure, unit, vote>>

InitVip ==
    /\ cache = [n \in Names |-> NoId]
    /\ MAX_DAYS_SINCE_BAN = Absent
    /\ MAX_GAME_BAN_THRESHOLD = Absent
    /\ event = NoEvent
    /\ todo = <<>>
    /\ invoked = <<>>
    /\ calls = <<>>
    /\ prior_failure = FALSE
    /\ unit = NoUnit
    /\ \E e \in BOOLEAN, d \in VipDesired, f \in VipFloors, c \in VipCounts :
          vip = [NoVip EXCEPT !.enabled = e, !.desired = d, !.floor = f, !.count = c]
    /\ vote = NoVote

NextVip ==
    \/ VipConnected
    \/ VipDisconnected
    \/ VipCountChanges
    \/ RealVipToggled

SpecVip == InitVip /\ [][NextVip]_vars

----------------------------------------------------------------------------
(* Chat and camera events through the router                               *)

\* The fields of a log line that the two hooks read. notify_camera only
\* copies the player's name into the texts it sends: one name stands for all.
ChatEvents ==
    {[type |-> "chat", player |-> n, sub_content |-> t] : n \in Names, t \in ChatTexts}
CameraEvents == {[type |-> "camera", player |-> "n1", sub_content |-> "camera"]}

ServerCommandFailures == SUBSET {"temporary_broadcast", "temporary_welcome"}

\* A chat or camera log line arrives; a vote session sees at most MaxVotes
\* vote chats.
ReceiveChat ==
    /\ todo = <<>>
    /\ \E e \in ChatEvents \cup CameraEvents :
          /\ (e.type = "chat" /\ is_vote(e.sub_content) # "") =>
                Len(vote.registered) < MaxVotes
          /\ event' = e
          /\ todo' = Hooks(e.type)
    /\ invoked' = <<>>
    /\ calls' = <<>>
    /\ prior_failure' = (prior_failure \/ \E i \in 1..Len(invoked) : invoked[i].raised # "")
    /\ UNCHANGED <<cache, MAX_DAYS_SINCE_BAN, MAX_GAME_BAN_THRESHOLD, unit, vip, vote>>

CountVote ==
    \E enabled \in BOOLEAN, thanksFail \in BOOLEAN, failures \in Failures :
        LET r == count_vote(enabled, event.player, event.sub_content, vote,
                            thanksFail, failures)
        IN  /\ process_hooks("count_vote", r)
            /\ vote' = r.vote
            /\ UNCHANGED cache

NotifyCamera ==
    \E auditRet \in AuditOutcomes, nbHooks \in 0..MaxHooks,
       is_broadcast \in BOOLEAN, is_welcome \in BOOLEAN, fails \in ServerCommandFailures :
        \E hookFail \in 0..nbHooks :
            /\ process_hooks("notify_camera",
                   notify_camera(auditRet, nbHooks, hookFail, is_broadcast, is_welcome, fails))
            /\ UNCHANGED <<cache, vote>>

InitChat ==
    /\ cache = [n \in Names |-> NoId]
    /\ MAX_DAYS_SINCE_BAN = Absent
    /\ MAX_GAME_BAN_THRESHOLD = Absent
    /\ event = NoEvent
    /\ todo = <<>>
    /\ invoked = <<>>
    /\ calls = <<>>
    /\ prior_failure = FALSE
    /\ unit = NoUnit
    /\ vip = NoVip
    /\ vote = NoVote

NextChat ==
    \/ ReceiveChat
    \/ CountVote
    \/ NotifyCamera

SpecChat == InitChat /\ [][NextChat]_vars

----------------------------------------------------------------------------
(* Properties                                                              *)

\* The hook that ran last under Spec; `calls` holds its calls.
LastHook == invoked[Len(invoked)]
Ran(hook) == Len(invoked) > 0 /\ LastHook.hook = hook
Ops(t, ops) == {i \in 1..Len(t) : t[i].op \in ops}
InvokedHooks == [i \in 1..Len(invoked) |-> invoked[i].hook]

IdentityUses ==
    {"save_player", "save_start_player_session", "ban_if_blacklisted", "ban_if_has_vac_bans"}
WrappedHooks == {"update_player_steaminfo_on_connect", "handle_on_disconnect"}

\* C1: the hooks of an event are invoked in registration order (for a connect
\* event handle_on_connect, update_player_steaminfo_on_connect, do_real_vips),
\* and whatever a hook raised, the hooks registered after it are still run or
\* still due, and the router takes the next event once none is due.
C1_DispatchInOrder ==
    /\ event.type = "connected" =>
          InvokedHooks \o todo =
              <<"handle_on_connect", "update_player_steaminfo_on_connect", "do_real_vips">>
    /\ event.type = "disconnected" =>
          InvokedHooks \o todo = <<"handle_on_disconnect", "undo_real_vips">>
    /\ event.type = "none" => invoked = <<>> /\ todo = <<>>
    /\ (todo = <<>>) = (ENABLED Receive)

\* handle_on_connect raised on a failed lookup without cached value, the two
\* hooks after it ran, and this in an event that follows a failed one.
C1_Witness ==
    /\ prior_failure
    /\ InvokedHooks =
          <<"handle_on_connect", "update_player_steaminfo_on_connect", "do_real_vips">>
    /\ invoked[1].raised \in LookupErrors
    /\ Ops(calls, {"set_vip_slots_num"}) # {}

\* C2: on integer inputs should_ban is False when DaysSinceLastBan <= 0, and
\* otherwise True exactly when DaysSinceLastBan <= max_days_since_ban and
\* (VACBanned or NumberOfGameBans >= max_game_bans).
C2_ShouldBanDecision ==
    (/\ unit.fn = "should_ban"
     /\ unit.bans.days.t = "int"
     /\ unit.bans.games.t = "int"
     /\ ~unit.max_game_bans.inf)
    => LET days == unit.bans.days.v
           hasBan == \/ unit.bans.vac = "True"
                     \/ unit.bans.games.v >= unit.max_game_bans.v
       IN  /\ days <= 0 => unit.res = "False"
           /\ days > 0 =>
                (unit.res = "True") = (days <= unit.max_days_since_ban /\ hasBan)
           /\ unit.res \in {"True", "False"}

\* DaysSinceLastBan = 0 with VACBanned and the game-ban count over the threshold
C2_Witness ==
    /\ unit.fn = "should_ban"
    /\ unit.bans = Bans(IntVal(0), IntVal(2), "True")
    /\ unit.max_game_bans = Num(1)
    /\ unit.max_days_since_ban = 2
    /\ unit.res = "False"

\* C3 (as claimed): when handle_on_connect looks the connecting name up, the
\* memo holds no entry for that name.
C3_InvalidatedBeforeLookup ==
    Ran("handle_on_connect") =>
        \A i \in Ops(calls, {"get_player_info"}) : calls[i].id = NoId

\* C4 (as claimed): handle_on_connect never saves the player, starts the
\* session or runs a ban check under the id that was cached for the name when
\* that id is not the one of the player connecting now.
C4_NoStaleIdentity ==
    Ran("handle_on_connect") =>
        \A i \in Ops(calls, IdentityUses) :
            ~(calls[i].id = calls[1].id /\ calls[i].id # event.who)

\* C5: in handle_on_connect, when the lookup raises and a value was cached for
\* the name before the clearing, the player is saved, the session started and
\* the ban checks entered under that value; when the lookup raises with
\* nothing cached, or returns no steam id, none of the four is performed.
C5_IdentityResolution ==
    Ran("handle_on_connect") =>
        LET cached == calls[1].id
            lk == calls[3]
            used(op) == {calls[i].id : i \in Ops(calls, {op})}
        IN  /\ lk.op = "get_player_info"
            /\ (lk.ret \in LookupErrors /\ cached # NoId) =>
                  /\ used("save_player") = {cached}
                  /\ used("save_start_player_session") = {cached}
                  /\ used("ban_if_blacklisted") = {cached}
                  /\ \/ used("ban_if_has_vac_bans") = {cached}
                     \/ LastHook.raised = "Exception"
            /\ (lk.ret \in LookupErrors /\ cached = NoId) =>
                  /\ Ops(calls, IdentityUses) = {}
                  /\ LastHook.raised = lk.ret
            /\ lk.ret = "noid" =>
                  /\ Ops(calls, IdentityUses) = {}
                  /\ LastHook.raised = ""

\* the lookup raised after a successful clearing, and the cached value was used
C5_Witness ==
    /\ Ran("handle_on_connect")
    /\ calls[2].ret = "none"
    /\ calls[3].ret = "CommandFailedError"
    /\ calls[1].id # NoId
    /\ Ops(calls, {"ban_if_has_vac_bans"}) # {}

\* C6 (as claimed): a wrapped hook whose identity lookup returns no steam id or
\* raises is not invoked, and the wrapper returns without raising.
C6_InjectNeverRaises ==
    \A h \in WrappedHooks :
        (Ran(h) /\ calls[1].ret \in {"noid"} \cup LookupErrors) =>
            /\ Ops(calls, {h}) = {}
            /\ LastHook.raised = ""

\* C6 (amended): a wrapped hook whose identity lookup returns no steam id is
\* not invoked and the wrapper returns normally; when the lookup raises, the
\* hook is not invoked either and the wrapper raises that error to the router.
C6_InjectSkipsOrRaises ==
    \A h \in WrappedHooks :
        Ran(h) =>
            /\ calls[1].op = "get_player_info"
            /\ calls[1].ret = "noid" => Ops(calls, {h}) = {} /\ LastHook.raised = ""
            /\ calls[1].ret \in LookupErrors =>
                  Ops(calls, {h}) = {} /\ LastHook.raised = calls[1].ret
            /\ calls[1].ret \in {"ok", "hit"} => Ops(calls, {h}) # {}

\* the lookup of handle_on_disconnect raised KeyError, which reached the router
C6_Witness ==
    /\ Ran("handle_on_disconnect")
    /\ calls[1].ret = "KeyError"
    /\ LastHook.raised = "KeyError"
    /\ Len(calls) = 1

\* C7 (as claimed): ban_if_blacklisted returns normally whichever call fails,
\* and when one fails exactly one error report goes to the audit channel.
C7_BlacklistNeverPropagates ==
    unit.fn = "ban_if_blacklisted" =>
        /\ unit.raised = ""
        /\ (\E i \in 1..Len(unit.calls) : unit.calls[i].ret = "raise") =>
              Cardinality(Ops(unit.calls, {"send_to_discord_audit:ERROR"})) = 1

\* C8: with BAN_ON_VAC_HISTORY_DAYS unset or <= 0, ban_if_has_vac_bans fetches
\* no ban history, issues no perma-ban and sends no audit message.
C8_DisabledByDefault ==
    (/\ unit.fn = "ban_if_has_vac_bans"
     /\ PyInt(Getenv(MAX_DAYS_SINCE_BAN)).exc = ""
     /\ PyInt(Getenv(MAX_DAYS_SINCE_BAN)).v <= 0)
    => /\ Ops(unit.calls, {"get_player", "get_player_bans", "do_perma_ban",
                           "send_to_discord_audit:AUTOBAN"}) = {}
       /\ unit.raised = ""

\* the variable is unset, the player exists and has a recent VAC ban
C8_Witness ==
    /\ unit.fn = "ban_if_has_vac_bans"
    /\ MAX_DAYS_SINCE_BAN = Absent
    /\ MAX_GAME_BAN_THRESHOLD = Val("numstr", 1)
    /\ unit.player = "clean"
    /\ unit.bans = Bans(IntVal(1), IntVal(2), "True")
    /\ unit.fails = {}
    /\ Len(unit.calls) = 1

\* C9: with a non-numeric value in either environment variable
\* ban_if_has_vac_bans issues no perma-ban, and neither does it with
\* BAN_ON_VAC_HISTORY_DAYS <= 0, whatever the other variable holds.
C9_MalformedDisables ==
    unit.fn = "ban_if_has_vac_bans" =>
        LET d == PyInt(Getenv(MAX_DAYS_SINCE_BAN))
            g == PyInt(Getenv(MAX_GAME_BAN_THRESHOLD))
        IN  (d.exc # "" \/ g.exc # "" \/ d.v <= 0) =>
                /\ Ops(unit.calls, {"do_perma_ban"}) = {}
                /\ unit.raised = ""

\* the game-ban threshold is non-numeric, the days are 2, the player exists
\* and has a VAC ban one day old
C9_Witness ==
    /\ unit.fn = "ban_if_has_vac_bans"
    /\ MAX_DAYS_SINCE_BAN = Val("numstr", 2)
    /\ MAX_GAME_BAN_THRESHOLD = NonNumeric
    /\ unit.player = "clean"
    /\ unit.bans = Bans(IntVal(1), IntVal(0), "True")
    /\ unit.fails = {}
    /\ Ops(unit.calls, {"do_perma_ban"}) = {}

\* C10 (as claimed): with DaysSinceLastBan absent, null or non-numeric,
\* should_ban raises nothing and does not decide to ban.
C10_MissingDaysNoBan ==
    (unit.fn = "should_ban" /\ unit.bans.days.t \in {"absent", "null", "str"})
    => unit.res \in {"False", "None"}

\* C11: the slot count _set_real_vips sets is max(desired - count,
\* max(floor, 0)): it is the least number that is at least desired - count, the
\* floor and 0; (20, 5, 18) gives 5 and (20, 5, 2) gives 18.
C11_SlotTarget ==
    (invoked # <<>> /\ calls # <<>>) =>
        LET d == vip.desired
            f == vip.floor
            c == calls[1].id
            t == calls[2].id
        IN  /\ calls[1].op = "get_vips_count"
            /\ calls[2].op = "set_vip_slots_num"
            /\ Len(calls) = 2
            /\ t >= d - c /\ t >= f /\ t >= 0
            /\ t \in {d - c, f, 0}
            /\ (d = 20 /\ f = 5 /\ c = 18) => t = 5
            /\ (d = 20 /\ f = 5 /\ c = 2) => t = 18

\* the hook ran with 20 desired, floor 5 and 18 VIPs, and set 5 slots
C11_Witness ==
    /\ invoked # <<>>
    /\ vip.desired = 20 /\ vip.floor = 5
    /\ calls = <<Call("get_vips_count", 18, "ok"), Call("set_vip_slots_num", 5, "ok")>>

\* C12: every slot count set on the server by the real-VIP hooks is at least
\* max(0, floor), also with more VIPs than the desired total.
C12_SlotFloor ==
    /\ \A i \in Ops(calls, {"set_vip_slots_num"}) : calls[i].id >= Max(0, vip.floor)
    /\ vip.applied => vip.slots >= Max(0, vip.floor)

\* more VIPs than desired, a negative floor: 0 slots were set
C12_Witness ==
    /\ Ran("undo_real_vips")
    /\ calls # <<>>
    /\ calls[1].id > vip.desired
    /\ vip.floor < 0
    /\ vip.applied /\ vip.slots = 0

\* C13: each connect and each disconnect event, with the feature enabled,
\* reads the VIP count and sets the slot count computed from it, and a second
\* event against the same VIP count sets the same slot count; with the feature
\* disabled the event reads no VIP count and sets no slot count.
C13_RecomputedEachEvent ==
    [][vip'.tick # vip.tick =>
         /\ invoked'[1].hook \in {"do_real_vips", "undo_real_vips"}
         /\ vip.enabled =>
               /\ calls' = <<Call("get_vips_count", vip.count, "ok"),
                             Call("set_vip_slots_num", vip'.slots, "ok")>>
               /\ vip'.applied
               /\ (calls # <<>> /\ invoked # <<>> /\ calls[1].id = vip.count) =>
                     /\ calls' = calls
                     /\ vip'.slots = vip.slots
         /\ ~vip.enabled =>
               /\ calls' = <<>>
               /\ vip'.slots = vip.slots
               /\ vip'.applied = vip.applied]_vars

\* the hook ran twice in a row against the same VIP count
C13_Witness ==
    /\ vip.same
    /\ vip.enabled
    /\ calls # <<>>
    /\ vip.slots = calls[2].id

\* C14: apply_with_retry, called by count_vote with nb_retry=2, tallies the
\* session once and then tries set_next_map for that winner at most 3 times,
\* stopping at the first success; when all 3 attempts fail the next map is
\* left as it was and count_vote does not raise.
C14_ApplyWithRetry ==
    [][(/\ invoked = <<>> /\ invoked' # <<>>
        /\ invoked'[1].hook = "count_vote"
        /\ Ops(calls', {"apply_with_retry"}) # {}) =>
          LET a == CHOOSE i \in Ops(calls', {"apply_with_retry"}) : TRUE
              tries == Ops(calls', {"set_next_map:A", "set_next_map:B"})
              winner == calls'[a + 1].ret
              last == calls'[Len(calls')]
          IN  /\ Ops(calls', {"tally"}) = {a + 1}
              /\ winner = tally(vote'.session)
              /\ tries = (a + 2)..Len(calls')
              /\ Cardinality(tries) \in 1..3
              /\ \A i \in tries : /\ calls'[i].op = SetNextMap(winner)
                                  /\ calls'[i].id = i - (a + 1)
                                  /\ i < Len(calls') => calls'[i].ret = "raise"
              /\ last.ret = "ok" => vote'.next_map = winner
              /\ last.ret = "raise" => /\ Cardinality(tries) = 3
                                       /\ vote'.next_map = vote.next_map
              /\ invoked'[1].raised = ""]_vars

\* count_vote returned after three refused attempts for a winner other than
\* the next map set earlier, which stays
C14_Witness ==
    /\ Ran("count_vote")
    /\ Cardinality({i \in Ops(calls, {"set_next_map:A", "set_next_map:B"}) :
                       calls[i].ret = "raise"}) = 3
    /\ LastHook.raised = ""
    /\ vote.next_map \in Maps
    /\ vote.next_map # tally(vote.session)

LastChoice(history, player) ==
    LET mine == {i \in DOMAIN history : history[i].player = player}
    IN  IF mine = {} THEN ""
        ELSE history[CHOOSE i \in mine : \A j \in mine : i >= j].choice

\* C15: the vote session holds at most one vote per player, the choice of
\* that player's most recent vote chat, and the counts are those of these
\* current votes; after (n1,A), (n2,B), (n1,B): B has 2 votes and A has 0.
C15_OneVotePerPlayer ==
    /\ \A p \in Names :
          LET mine == {i \in DOMAIN vote.session : vote.session[i].player = p}
          IN  /\ Cardinality(mine) <= 1
              /\ {vote.session[i].choice : i \in mine} =
                    {LastChoice(vote.registered, p)} \ {""}
    /\ \A m \in Maps :
          Count(vote.session, m) =
              Cardinality({p \in Names : LastChoice(vote.registered, p) = m})
    /\ vote.registered = <<[player |-> "n1", choice |-> "A"],
                           [player |-> "n2", choice |-> "B"],
                           [player |-> "n1", choice |-> "B"]>> =>
          /\ Count(vote.session, "B") = 2
          /\ Count(vote.session, "A") = 0
          /\ tally(vote.session) = "B"

C15_Witness ==
    /\ Ran("count_vote")
    /\ vote.registered = <<[player |-> "n1", choice |-> "A"],
                           [player |-> "n2", choice |-> "B"],
                           [player |-> "n1", choice |-> "B"]>>
    /\ Len(vote.session) = 2

\* C16: when voting is disabled, or the chat text is not a vote, count_vote
\* leaves the vote session and the next map as they were and makes none of
\* the calls register_vote, temporary_broadcast, apply_with_retry.
C16_BypassedWhenNotApplicable ==
    [][(/\ invoked = <<>> /\ invoked' # <<>>
        /\ invoked'[1].hook = "count_vote"
        /\ (calls'[1].ret = "False" \/ is_vote(event.sub_content) = "")) =>
          /\ vote' = vote
          /\ Ops(calls', {"register_vote", "temporary_broadcast", "apply_with_retry",
                          "tally", "set_next_map:A", "set_next_map:B"}) = {}
          /\ calls'[1].ret = "False" => Len(calls') = 1
          /\ invoked'[1].raised = ""]_vars

\* a vote chat arrived with voting disabled, after votes of both players
C16_Witness ==
    /\ Ran("count_vote")
    /\ calls = <<Call("get_vote_enabled", 0, "False")>>
    /\ is_vote(event.sub_content) # ""
    /\ Len(vote.session) = 2

ServerCommands == {"temporary_broadcast", "temporary_welcome"}

C20_RegisterThenApply ==
    (/\ Ran("count_vote")
     /\ calls[1].ret = "True"
     /\ is_vote(event.sub_content) # "") =>
        LET regs == Ops(calls, {"register_vote"})
            thanks == Ops(calls, {"temporary_broadcast"})
            applies == Ops(calls, {"apply_with_retry"})
        IN  /\ Cardinality(regs) = 1 /\ Cardinality(thanks) = 1 /\ Cardinality(applies) = 1
            /\ \A i \in regs, j \in thanks, k \in applies : i < j /\ j < k
            /\ LastHook.raised = ""

C20_Witness ==
    /\ Ran("count_vote")
    /\ \E j \in Ops(calls, {"temporary_broadcast"}), k \in Ops(calls, {"apply_with_retry"}) :
          calls[j].ret = "raise" /\ j < k
    /\ LastHook.raised = ""
    /\ vote.next_map = tally(vote.session)

\* C18: when handle_on_connect has a steam id, it calls save_player,
\* save_start_player_session and ban_if_blacklisted, in this order, and then
\* ban_if_has_vac_bans whenever ban_if_blacklisted returned: after a ban,
\* without a player record, or with nothing to do. One connect event makes
\* at most two do_perma_ban calls, each after the two saves.
C18_ConnectStepsInOrder ==
    Ran("handle_on_connect") =>
        LET lk == calls[3]
            available == \/ lk.ret \in {"ok", "hit"}
                         \/ lk.ret \in LookupErrors /\ calls[1].id # NoId
            at(op) == Ops(calls, {op})
            bl == at("ban_if_blacklisted")
            vac == at("ban_if_has_vac_bans")
            bans == at("do_perma_ban")
            blRaised == \E i \in 1..Len(calls) :
                           /\ calls[i].ret = "raise"
                           /\ \A v \in vac : i < v
                           /\ \/ calls[i].op = "send_to_discord_audit:ERROR"
                              \/ calls[i].op = "get_player"
        IN  /\ ~available => Ops(calls, IdentityUses \cup {"do_perma_ban"}) = {}
            /\ available =>
                  /\ at("save_player") = {4}
                  /\ at("save_start_player_session") = {5}
                  /\ bl = {6}
                  /\ Cardinality(vac) <= 1
                  /\ \A v \in vac : v > 6
                  /\ ~blRaised <=> vac # {}
                  /\ blRaised => LastHook.raised = "Exception"
            /\ Cardinality(bans) <= 2
            /\ Cardinality({i \in bans : \A v \in vac : i < v}) <= 1
            /\ \A i \in bans : i > 5 /\ at("save_start_player_session") = {5}

\* a connect event that issued two bans: one of the blacklist check, one of
\* the VAC-history check
C18_Witness ==
    /\ Ran("handle_on_connect")
    /\ LastHook.raised = ""
    /\ \E i, j \in Ops(calls, {"do_perma_ban"}), v \in Ops(calls, {"ban_if_has_vac_bans"}) :
          /\ i < v /\ v < j
          /\ calls[i].ret = "ok" /\ calls[j].ret = "ok"

\* C19: with MAX_GAME_BAN_THRESHOLD unset or <= 0 the game-ban threshold is
\* infinite: ban_if_has_vac_bans bans no player whose VACBanned is not true,
\* whatever the game bans and the days; and it issues a perma-ban only for
\* an existing player record and ban data that is a non-empty dict.
C19_InfiniteGameBanThreshold ==
    unit.fn = "ban_if_has_vac_bans" =>
        LET g == PyInt(Getenv(MAX_GAME_BAN_THRESHOLD))
            banned == Ops(unit.calls, {"do_perma_ban"}) # {}
        IN  /\ (g.exc = "" /\ g.v <= 0 /\ unit.bans.vac # "True") => ~banned
            /\ banned => /\ unit.player # "none"
                         /\ unit.bans.kind = "dict"

\* the threshold is unset, the feature is on with 2 days; the player has 2
\* game bans, the last ban 1 day old, and no VAC ban: should_ban is reached
\* and no ban is issued
C19_Witness ==
    /\ unit.fn = "ban_if_has_vac_bans"
    /\ MAX_DAYS_SINCE_BAN = Val("numstr", 2)
    /\ MAX_GAME_BAN_THRESHOLD = Absent
    /\ unit.player = "clean"
    /\ unit.bans = Bans(IntVal(1), IntVal(2), "False")
    /\ unit.fails = {}
    /\ Len(unit.calls) = 3
    /\ unit.calls[3].op = "get_player_bans"
    /\ unit.raised = ""

====
